---- MODULE Spec2Model ----
(***************************************************************************)
(* Model of lib/platformTools.js: the platform registry                    *)
(* (registeredPlatforms, enablePlatforms, getPlatform, getAllPlatforms),   *)
(* the module loader (getPlatformModule, loadPlatform) and the batch       *)
(* loader (loadPlatforms) with its Q promise chain.                        *)
(*                                                                         *)
(* JavaScript runs every handler to its first suspension point without     *)
(* interleaving, so the synchronous part of each exported function is one  *)
(* action; every promise continuation (a later tick) is an action of its   *)
(* own.  Platform ids and package names range over ordinary names, i.e.    *)
(* names that are not members of Object.prototype.                         *)
(***************************************************************************)
EXTENDS Integers, Sequences, FiniteSets, TLC

(***************************************************************************)
(* Bounds of the model.                                                    *)
(***************************************************************************)
\* longest platforms array handed to loadPlatforms
MaxLen == 2
\* number of loadPlatforms calls in one behaviour
MaxBatches == 1

\* platform ids, in the key order of the configuration objects
IdOrder == <<"a", "b", "c">>
PlatformIds == {IdOrder[i] : i \in 1..Len(IdOrder)}
\* package names known to the module system
PackageNames == {"modA", "modC"}

\* the value of a property that was never assigned
Undefined == [id |-> "undefined", platforms |-> <<>>, batch |-> 0, serial |-> 0]
\* an instance that a configuration object already carries
PresetInstance == [id |-> "modA", platforms |-> <<"a">>, batch |-> 0, serial |-> 1]

Entry(packageName, source) ==
  [packageName |-> packageName, source |-> source, instance |-> Undefined]

\* var registeredPlatforms = {};
EmptyConfig == [id \in {} |-> Entry("", "")]

\* configuration objects handed to enablePlatforms
ConfigShared ==
  [id \in {"a", "b", "c"} |->
     IF id = "c" THEN Entry("modC", "src2") ELSE Entry("modA", "src")]
\* b is registered without a package name, c without a source
ConfigMixed ==
  [id \in {"a", "b", "c"} |->
     IF id = "a" THEN Entry("modA", "src")
     ELSE IF id = "b" THEN Entry("", "src") ELSE Entry("modC", "")]
\* a already carries an instance; c is not registered
ConfigLoaded ==
  [id \in {"a", "b"} |->
     IF id = "a" THEN [Entry("modA", "src") EXCEPT !.instance = PresetInstance]
     ELSE Entry("modA", "src")]
Configs == {EmptyConfig, ConfigShared, ConfigMixed, ConfigLoaded}
\* the content of platforms.json next to the main module, when it is readable
DefaultConfig == ConfigShared

\* what require(packageName) does: returns the module, throws
\* MODULE_NOT_FOUND, or throws another error
RequireOutcomes == {"installed", "missing", "broken"}

\* all arrays of platform ids of length at most n
RECURSIVE SeqsUpTo(_)
SeqsUpTo(n) ==
  IF n = 0 THEN {<<>>}
  ELSE LET shorter == SeqsUpTo(n - 1)
       IN shorter \cup {Append(s, id) : s \in shorter, id \in PlatformIds}

VARIABLES
  registeredPlatforms,  \* the module-level registry object
  enabled,              \* has enablePlatforms ever replaced the registry
  modules,              \* the module system: what require(name) does now
  batchNo,              \* number of loadPlatforms calls so far
  batchInput,           \* the platforms argument of the current batch
  regAtLoad,            \* the registry the current batch looked its ids up in
  modsAtLoad,           \* the module system when the current tasks were made
  tasks,                \* the tasks array of the current batch
  calls,                \* calls made by the current batch, in order
  allState,             \* Q.all(tasks).then(...) : pending/fulfilled/rejected
  batchState,           \* the promise loadPlatforms returned
  batchErr,             \* the rejection reason of the chain
  instances,            \* the value the chain fulfilled with
  lastConfig,           \* the configuration the latest enablePlatforms installed
  direct                \* the arguments of a loadPlatform call made on its own

vars == <<registeredPlatforms, enabled, modules, batchNo, batchInput, regAtLoad,
          modsAtLoad, tasks, calls, allState, batchState, batchErr, instances, lastConfig,
          direct>>

batchVars == <<batchNo, batchInput, regAtLoad, modsAtLoad, tasks, calls, allState,
               batchState, batchErr, instances, direct>>

\* no loadPlatform call was made on its own
NoDirect == [called |-> FALSE, packageName |-> "", source |-> ""]
\* the arguments of such calls: a missing argument is the empty string
DirectNames == PackageNames \cup {""}
DirectSources == {"src", ""}

Call(op, name, platforms) == [op |-> op, name |-> name, platforms |-> platforms]

(***************************************************************************)
(* Module loader.                                                          *)
(***************************************************************************)
GetPlatformModuleUnchecked(mods, packageName, source) ==
  IF packageName = "" THEN
    [inner |-> "error", err |-> "InvalidName", calls |-> <<>>]
  ELSE IF mods[packageName] = "installed" THEN
    [inner |-> "module", err |-> "",
     calls |-> <<Call("require", packageName, <<>>)>>]
  ELSE IF mods[packageName] # "missing" THEN
    [inner |-> "error", err |-> "ResolutionError",
     calls |-> <<Call("require", packageName, <<>>)>>]
  ELSE
    [inner |-> "queued", err |-> "",
     calls |-> <<Call("require", packageName, <<>>),
                 Call("queuePackageInstallation", packageName, <<>>)>>]

GetPlatformModuleMasking(mods, packageName, source) ==
  IF packageName = "" THEN
    [inner |-> "error", err |-> "InvalidName", calls |-> <<>>]
  ELSE IF source = "" THEN
    [inner |-> "error", err |-> "InvalidSource", calls |-> <<>>]
  ELSE IF mods[packageName] = "installed" THEN
    [inner |-> "module", err |-> "",
     calls |-> <<Call("require", packageName, <<>>)>>]
  ELSE
    [inner |-> "queued", err |-> "",
     calls |-> <<Call("require", packageName, <<>>),
                 Call("queuePackageInstallation", packageName, <<>>)>>]

\* The promise getPlatformModule returns, and the calls it makes on the way.
\* inner: "module" (Q.resolve(module)), "error" (Q.reject), "queued" (the
\* promise of queuePackageInstallation, with the second require chained).
GetPlatformModule(mods, packageName, source) ==
  IF packageName = "" THEN
    [inner |-> "error", err |-> "InvalidName", calls |-> <<>>]
  ELSE IF source = "" THEN
    [inner |-> "error", err |-> "InvalidSource", calls |-> <<>>]
  ELSE IF mods[packageName] = "installed" THEN
    [inner |-> "module", err |-> "",
     calls |-> <<Call("require", packageName, <<>>)>>]
  ELSE IF mods[packageName] # "missing" THEN
    [inner |-> "error", err |-> "ResolutionError",
     calls |-> <<Call("require", packageName, <<>>)>>]
  ELSE
    [inner |-> "queued", err |-> "",
     calls |-> <<Call("require", packageName, <<>>),
                 Call("queuePackageInstallation", packageName, <<>>)>>]

\* loadPlatform: getPlatformModule(...).then(module.Platform).nodeify(callback)
LoadPlatform(mods, packageName, source) ==
  LET r == GetPlatformModule(mods, packageName, source)
  IN [r EXCEPT !.calls = <<Call("loadPlatform", packageName, <<>>)>> \o @]

(***************************************************************************)
(* Batch loader: the synchronous part of loadPlatforms.                    *)
(***************************************************************************)
Task(kind, subject, packageName, platforms, inner, err) ==
  [kind |-> kind, subject |-> subject, packageName |-> packageName,
   platforms |-> platforms, inner |-> inner, err |-> err,
   state |-> IF kind = "load" THEN "pending" ELSE "failed"]

\* platformInfo && platformInfo.packageName
IsRegistered(reg, platformId) ==
  /\ platformId \in DOMAIN reg
  /\ reg[platformId].packageName # ""

\* var platformList = platformMap[packageName]: the index of the task whose
\* platformList the package owns, 0 when it has none yet.  The list is shared
\* by reference between platformMap and the task's then callback.
OwnerForgotten(platformMap, packageName) == 0

Owner(platformMap, packageName) == platformMap[packageName]

\* platformList.push(platformId), seen through the task that shares the list
PushPlatformOnce(taskList, owner, platformId) ==
  IF taskList[owner].platforms = <<>>
  THEN [taskList EXCEPT ![owner].platforms = Append(@, platformId)]
  ELSE taskList

PushPlatform(taskList, owner, platformId) ==
  [taskList EXCEPT ![owner].platforms = Append(@, platformId)]

\* One iteration of the reduce callback.
ReduceStep(reg, mods, acc, platformId) ==
  IF IsRegistered(reg, platformId) THEN
    LET packageName == reg[platformId].packageName
        found == Owner(acc.platformMap, packageName)
        owner == IF found = 0 THEN Len(acc.taskList) + 1 ELSE found
        r == LoadPlatform(mods, packageName, reg[platformId].source)
        created ==
          IF found = 0
          THEN [taskList |-> Append(acc.taskList,
                                    Task("load", platformId, packageName, <<>>,
                                         r.inner, r.err)),
                platformMap |-> [acc.platformMap EXCEPT ![packageName] = owner],
                calls |-> acc.calls \o r.calls]
          ELSE acc
    IN [created EXCEPT !.taskList = PushPlatform(@, owner, platformId)]
  ELSE
    [acc EXCEPT
       !.taskList = Append(@, Task("reject", platformId, "", <<>>, "error",
                                   "NotRegistered")),
       !.calls = Append(@, Call("Q.reject", platformId, <<>>))]

RECURSIVE ReduceRight(_, _, _, _)
ReduceRight(reg, mods, platforms, acc) ==
  IF platforms = <<>> THEN acc
  ELSE ReduceRight(reg, mods, SubSeq(platforms, 1, Len(platforms) - 1),
                   ReduceStep(reg, mods, acc, platforms[Len(platforms)]))

\* platforms.reduce(function (taskList, platformId) {...}, [])
RECURSIVE Reduce(_, _, _, _)
Reduce(reg, mods, platforms, acc) ==
  IF platforms = <<>> THEN acc
  ELSE Reduce(reg, mods, Tail(platforms),
              ReduceStep(reg, mods, acc, Head(platforms)))

InitialAcc ==
  [taskList |-> <<>>, platformMap |-> [n \in PackageNames |-> 0],
   calls |-> <<>>]

LoadPlatformsSyncFlushFirst(reg, mods, platforms) ==
  LET r == Reduce(reg, mods, platforms, InitialAcc)
  IN [taskList |-> r.taskList,
      calls |-> <<Call("installQueuedPackages", "", <<>>)>> \o r.calls
                \o <<Call("Q.all", "", <<>>)>>]

\* Everything loadPlatforms does before it returns its promise: the reduce,
\* the flush of the queued installations, then Q.all(tasks).
LoadPlatformsSync(reg, mods, platforms) ==
  LET r == Reduce(reg, mods, platforms, InitialAcc)
  IN [taskList |-> r.taskList,
      calls |-> r.calls \o <<Call("installQueuedPackages", "", <<>>),
                             Call("Q.all", "", <<>>)>>]

LoadPlatformsRegistering(platforms) ==
  /\ batchState # "pending"
  /\ batchNo < MaxBatches
  /\ LET r == LoadPlatformsSync(registeredPlatforms, modules, platforms)
     IN /\ tasks' = r.taskList
        /\ calls' = r.calls
  /\ batchNo' = batchNo + 1
  /\ batchInput' = platforms
  /\ regAtLoad' = registeredPlatforms
  /\ modsAtLoad' = modules
  /\ allState' = "pending"
  /\ batchState' = "pending"
  /\ batchErr' = ""
  /\ instances' = <<>>
  /\ direct' = NoDirect
  /\ registeredPlatforms' =
       [id \in DOMAIN registeredPlatforms
                 \cup {platforms[k] : k \in 1..Len(platforms)} |->
          IF id \in DOMAIN registeredPlatforms THEN registeredPlatforms[id]
          ELSE Entry("", "")]
  /\ UNCHANGED <<enabled, modules, lastConfig>>

LoadPlatforms(platforms) ==
  /\ batchState # "pending"
  /\ batchNo < MaxBatches
  /\ LET r == LoadPlatformsSync(registeredPlatforms, modules, platforms)
     IN /\ tasks' = r.taskList
        /\ calls' = r.calls
  /\ batchNo' = batchNo + 1
  /\ batchInput' = platforms
  /\ regAtLoad' = registeredPlatforms
  /\ modsAtLoad' = modules
  /\ allState' = "pending"
  /\ batchState' = "pending"
  /\ batchErr' = ""
  /\ instances' = <<>>
  /\ direct' = NoDirect
  /\ UNCHANGED <<registeredPlatforms, enabled, modules, lastConfig>>

\* loadPlatform(packageName, source) called on its own, outside a batch: the
\* tasks array then holds its promise alone, and nothing flushes the queue
LoadPlatformDirect(packageName, source) ==
  /\ batchState # "pending"
  /\ LET r == LoadPlatform(modules, packageName, source)
     IN /\ tasks' = <<Task("load", "", packageName, <<>>, r.inner, r.err)>>
        /\ calls' = r.calls
  /\ direct' = [called |-> TRUE, packageName |-> packageName, source |-> source]
  /\ batchInput' = <<>>
  /\ regAtLoad' = EmptyConfig
  /\ modsAtLoad' = modules
  /\ allState' = "none"
  /\ batchState' = "none"
  /\ batchErr' = ""
  /\ instances' = <<>>
  /\ UNCHANGED <<registeredPlatforms, enabled, modules, lastConfig, batchNo>>

(***************************************************************************)
(* Promise continuations of a batch.                                       *)
(***************************************************************************)
Settled(task) == task.state \in {"resolved", "failed"}

TaskSettleSwallowed(i) ==
  /\ tasks[i].state = "pending"
  /\ tasks[i].inner = "module"
  /\ tasks' = [tasks EXCEPT ![i].state = "resolved"]
  /\ UNCHANGED <<registeredPlatforms, enabled, modules, batchNo, batchInput,
                 regAtLoad, modsAtLoad, calls, allState, batchState, batchErr,
                 instances, lastConfig, direct>>

\* a task whose getPlatformModule promise was already settled when it was
\* returned settles on a later tick
TaskSettle(i) ==
  /\ tasks[i].state = "pending"
  /\ tasks[i].inner \in {"module", "error"}
  /\ tasks' = [tasks EXCEPT
                 ![i].state = IF tasks[i].inner = "module" THEN "resolved"
                              ELSE "failed"]
  /\ UNCHANGED <<registeredPlatforms, enabled, modules, batchNo, batchInput,
                 regAtLoad, modsAtLoad, calls, allState, batchState, batchErr, instances,
                 lastConfig, direct>>

\* the acquirer resolves the promise of queuePackageInstallation, after
\* installQueuedPackages, leaving the package in some state on disk
InstallResolves(i, outcome) ==
  /\ tasks[i].state = "pending"
  /\ tasks[i].inner = "queued"
  /\ \E k \in 1..Len(calls) : calls[k].op = "installQueuedPackages"
  /\ modules' = [modules EXCEPT ![tasks[i].packageName] = outcome]
  /\ tasks' = [tasks EXCEPT ![i].inner = "installed"]
  /\ UNCHANGED <<registeredPlatforms, enabled, batchNo, batchInput, regAtLoad, modsAtLoad,
                 calls, allState, batchState, batchErr, instances, lastConfig, direct>>

\* the acquirer rejects the promise of queuePackageInstallation: the then
\* callback is skipped and the task fails with the acquirer's error
InstallRejects(i) ==
  /\ tasks[i].state = "pending"
  /\ tasks[i].inner = "queued"
  /\ \E k \in 1..Len(calls) : calls[k].op = "installQueuedPackages"
  /\ tasks' = [tasks EXCEPT ![i].inner = "error", ![i].err = "InstallError"]
  /\ UNCHANGED <<registeredPlatforms, enabled, modules, batchNo, batchInput,
                 regAtLoad, modsAtLoad, calls, allState, batchState, batchErr, instances,
                 lastConfig, direct>>

RequireAgainRetry(i) ==
  /\ tasks[i].state = "pending"
  /\ tasks[i].inner = "installed"
  /\ calls' = calls \o
       IF modules[tasks[i].packageName] = "installed"
       THEN <<Call("require", tasks[i].packageName, <<>>)>>
       ELSE <<Call("require", tasks[i].packageName, <<>>),
              Call("queuePackageInstallation", tasks[i].packageName, <<>>)>>
  /\ tasks' = [tasks EXCEPT
                 ![i].state = IF modules[tasks[i].packageName] = "installed"
                              THEN "resolved" ELSE "pending",
                 ![i].inner = IF modules[tasks[i].packageName] = "installed"
                              THEN "module" ELSE "queued"]
  /\ UNCHANGED <<registeredPlatforms, enabled, modules, batchNo, batchInput,
                 regAtLoad, modsAtLoad, allState, batchState, batchErr,
                 instances, lastConfig, direct>>

\* .then(function () { var module = require(packageName); ... })
RequireAgain(i) ==
  /\ tasks[i].state = "pending"
  /\ tasks[i].inner = "installed"
  /\ calls' = Append(calls, Call("require", tasks[i].packageName, <<>>))
  /\ tasks' = [tasks EXCEPT
                 ![i].state = IF modules[tasks[i].packageName] = "installed"
                              THEN "resolved" ELSE "failed",
                 ![i].inner = IF modules[tasks[i].packageName] = "installed"
                              THEN "module" ELSE "error",
                 ![i].err = IF modules[tasks[i].packageName] = "installed"
                            THEN ""
                            ELSE IF modules[tasks[i].packageName] = "missing"
                            THEN "MODULE_NOT_FOUND" ELSE "RequireError"]
  /\ UNCHANGED <<registeredPlatforms, enabled, modules, batchNo, batchInput,
                 regAtLoad, modsAtLoad, allState, batchState, batchErr, instances,
                 lastConfig, direct>>

NewPlatformLate(task, batch, serial) ==
  [id |-> task.packageName,
   platforms |-> SelectSeq(task.platforms,
                           LAMBDA id : /\ IsRegistered(registeredPlatforms, id)
                                       /\ registeredPlatforms[id].packageName
                                            = task.packageName),
   batch |-> batch, serial |-> serial]

\* new module.Platform(module.id, module.platforms)
NewPlatform(task, batch, serial) ==
  [id |-> task.packageName, platforms |-> task.platforms, batch |-> batch,
   serial |-> serial]

AllFulfilSettled ==
  /\ allState = "pending"
  /\ \A i \in 1..Len(tasks) : Settled(tasks[i])
  /\ allState' = "fulfilled"
  /\ LET done == SelectSeq(tasks, LAMBDA t : t.state = "resolved")
     IN /\ instances' = [i \in 1..Len(done) |-> NewPlatform(done[i], batchNo, i)]
        /\ calls' = calls \o [i \in 1..Len(done) |->
                                Call("new Platform", done[i].packageName,
                                     done[i].platforms)]
  /\ UNCHANGED <<registeredPlatforms, enabled, modules, batchNo, batchInput,
                 regAtLoad, modsAtLoad, tasks, batchState, batchErr, lastConfig, direct>>

\* Q.all(tasks) fulfils once every task is fulfilled; the then callback
\* constructs one platform per task, in task order
AllFulfil ==
  /\ allState = "pending"
  /\ \A i \in 1..Len(tasks) : tasks[i].state = "resolved"
  /\ allState' = "fulfilled"
  /\ instances' = [i \in 1..Len(tasks) |-> NewPlatform(tasks[i], batchNo, i)]
  /\ calls' = calls \o [i \in 1..Len(tasks) |->
                          Call("new Platform", tasks[i].packageName,
                               tasks[i].platforms)]
  /\ UNCHANGED <<registeredPlatforms, enabled, modules, batchNo, batchInput,
                 regAtLoad, modsAtLoad, tasks, batchState, batchErr, lastConfig, direct>>

AllRejectPartial(i) ==
  /\ allState = "pending"
  /\ tasks[i].state = "failed"
  /\ allState' = "rejected"
  /\ batchErr' = tasks[i].err
  /\ LET done == SelectSeq(tasks, LAMBDA t : t.state = "resolved")
     IN /\ instances' = [k \in 1..Len(done) |-> NewPlatform(done[k], batchNo, k)]
        /\ calls' = calls \o [k \in 1..Len(done) |->
                                Call("new Platform", done[k].packageName,
                                     done[k].platforms)]
  /\ UNCHANGED <<registeredPlatforms, enabled, modules, batchNo, batchInput,
                 regAtLoad, modsAtLoad, tasks, batchState, lastConfig, direct>>

\* Q.all(tasks) rejects with the reason of a rejected task; the then
\* callback is skipped
AllReject(i) ==
  /\ allState = "pending"
  /\ tasks[i].state = "failed"
  /\ allState' = "rejected"
  /\ batchErr' = tasks[i].err
  /\ UNCHANGED <<registeredPlatforms, enabled, modules, batchNo, batchInput,
                 regAtLoad, modsAtLoad, tasks, calls, batchState, instances, lastConfig, direct>>

FinallyDoneSkipped(taskList) == TRUE

\* what the finally callback waits for: Q.allSettled(tasks)
FinallyDone(taskList) == \A i \in 1..Len(taskList) : Settled(taskList[i])

\* .finally(function () { return Q.allSettled(tasks); }).nodeify(callback)
BatchSettle ==
  /\ batchState = "pending"
  /\ allState # "pending"
  /\ FinallyDone(tasks)
  /\ batchState' = allState
  /\ UNCHANGED <<registeredPlatforms, enabled, modules, batchNo, batchInput,
                 regAtLoad, modsAtLoad, tasks, calls, allState, batchErr, instances,
                 lastConfig, direct>>

(***************************************************************************)
(* Platform registry.                                                      *)
(***************************************************************************)
ReplaceMerged(reg, platformConfig) ==
  [id \in DOMAIN reg \cup DOMAIN platformConfig |->
     IF id \in DOMAIN platformConfig THEN platformConfig[id] ELSE reg[id]]

\* registeredPlatforms = platformConfig
Replace(reg, platformConfig) == platformConfig

EnablePlatforms(platformConfig) ==
  /\ registeredPlatforms' = Replace(registeredPlatforms, platformConfig)
  /\ lastConfig' = platformConfig
  /\ enabled' = TRUE
  /\ UNCHANGED <<modules, batchVars>>

\* enablePlatforms() : the configuration is required from the default path;
\* when that throws, enablePlatforms throws before the assignment
EnablePlatformsDefault(readable) ==
  /\ IF readable
     THEN /\ registeredPlatforms' = Replace(registeredPlatforms, DefaultConfig)
          /\ lastConfig' = DefaultConfig
          /\ enabled' = TRUE
     ELSE UNCHANGED <<registeredPlatforms, lastConfig, enabled>>
  /\ UNCHANGED <<modules, batchVars>>

\* Object.keys(registeredPlatforms)
Keys(reg) == SelectSeq(IdOrder, LAMBDA id : id \in DOMAIN reg)

\* what getAllPlatforms returns:
\* Object.keys(registeredPlatforms).map(key => registeredPlatforms[key].instance)
AllPlatforms(reg) ==
  LET keys == Keys(reg)
  IN [k \in 1..Len(keys) |-> reg[keys[k]].instance]

PlatformOfUnchecked(reg, platformId) ==
  IF platformId \notin DOMAIN reg THEN
    [err |-> "NotRegistered", value |-> <<>>]
  ELSE
    [err |-> "", value |-> <<reg[platformId].instance>>]

\* the outcome of getPlatform(platformId): an error thrown or a value returned
PlatformOf(reg, platformId) ==
  IF platformId \notin DOMAIN reg THEN
    [err |-> "NotRegistered", value |-> <<>>]
  ELSE IF reg[platformId].instance = Undefined THEN
    [err |-> "NotLoaded", value |-> <<>>]
  ELSE
    [err |-> "", value |-> <<reg[platformId].instance>>]

\* getAllPlatforms and getPlatform read the registry and assign nothing
GetAllPlatforms ==
  /\ Len(AllPlatforms(registeredPlatforms)) = Len(Keys(registeredPlatforms))
  /\ UNCHANGED vars

GetPlatform(platformId) ==
  /\ PlatformOf(registeredPlatforms, platformId).err
       \in {"", "NotRegistered", "NotLoaded"}
  /\ UNCHANGED vars

(***************************************************************************)
(* Specification.                                                          *)
(***************************************************************************)
InitialRegistryPreloaded == DefaultConfig

\* var registeredPlatforms = {};
InitialRegistry == EmptyConfig

Init ==
  /\ registeredPlatforms = InitialRegistry
  /\ enabled = FALSE
  /\ modules \in [PackageNames -> RequireOutcomes]
  /\ batchNo = 0
  /\ batchInput = <<>>
  /\ regAtLoad = EmptyConfig
  /\ modsAtLoad = modules
  /\ tasks = <<>>
  /\ calls = <<>>
  /\ allState = "none"
  /\ batchState = "none"
  /\ batchErr = ""
  /\ instances = <<>>
  /\ lastConfig = InitialRegistry
  /\ direct = NoDirect

Next ==
  \/ \E platforms \in SeqsUpTo(MaxLen) : LoadPlatforms(platforms)
  \/ \E packageName \in DirectNames, source \in DirectSources :
       LoadPlatformDirect(packageName, source)
  \/ \E i \in 1..Len(tasks) : TaskSettle(i)
  \/ \E i \in 1..Len(tasks), outcome \in RequireOutcomes :
       InstallResolves(i, outcome)
  \/ \E i \in 1..Len(tasks) : InstallRejects(i)
  \/ \E i \in 1..Len(tasks) : RequireAgain(i)
  \/ AllFulfil
  \/ \E i \in 1..Len(tasks) : AllReject(i)
  \/ BatchSettle
  \/ \E platformConfig \in Configs : EnablePlatforms(platformConfig)
  \/ \E readable \in BOOLEAN : EnablePlatformsDefault(readable)
  \/ GetAllPlatforms
  \/ \E platformId \in PlatformIds : GetPlatform(platformId)

Spec == Init /\ [][Next]_vars

\* Q runs every callback of a settled promise on a later tick, and the
\* acquirer is taken to settle every promise it returned once the queue was
\* flushed
Fairness ==
  /\ WF_vars(\E i \in 1..Len(tasks) : TaskSettle(i))
  /\ WF_vars(\/ \E i \in 1..Len(tasks), outcome \in RequireOutcomes :
                  InstallResolves(i, outcome)
             \/ \E i \in 1..Len(tasks) : InstallRejects(i))
  /\ WF_vars(\E i \in 1..Len(tasks) : RequireAgain(i))
  /\ WF_vars(AllFulfil)
  /\ WF_vars(\E i \in 1..Len(tasks) : AllReject(i))
  /\ WF_vars(BatchSettle)

SpecFair == Spec /\ Fairness

(***************************************************************************)
(* Properties.                                                             *)
(***************************************************************************)
BatchStarted == batchState # "none"

\* positions of the calls of the current batch to op, and to op for name
CallsOf(op) == {k \in 1..Len(calls) : calls[k].op = op}
CallsFor(op, name) == {k \in CallsOf(op) : calls[k].name = name}

\* the input positions whose id was registered when the batch looked it up
RegisteredAt == {k \in 1..Len(batchInput) : IsRegistered(regAtLoad, batchInput[k])}
\* the package names that back a registered id of the input
BackingNames == {regAtLoad[batchInput[k]].packageName : k \in RegisteredAt}
\* the ids of the input backed by a package, in input order, repeats included
IdsBackedBy(name) ==
  SelectSeq(batchInput,
            LAMBDA id : IsRegistered(regAtLoad, id)
                        /\ regAtLoad[id].packageName = name)

\* C1: in every loadPlatforms call, loadPlatform is called exactly once for
\* each package name that backs a registered id of the input, however many
\* ids of the input (repeated ids included) map to that name.
C1_OneLoadPerModule ==
  BatchStarted =>
    \A name \in BackingNames : Cardinality(CallsFor("loadPlatform", name)) = 1

\* a batch in which one package backs two different ids of the input
C1_Witness ==
  /\ BatchStarted
  /\ \E name \in BackingNames :
       /\ Len(IdsBackedBy(name)) = 2
       /\ IdsBackedBy(name)[1] # IdsBackedBy(name)[2]
       /\ Cardinality(CallsFor("loadPlatform", name)) = 1

\* C2: in every loadPlatforms call, an empty batch and a batch whose tasks
\* all fail included, installQueuedPackages is called exactly once, after
\* every task was created and every queuePackageInstallation call was made,
\* and before the batch waits on its tasks with Q.all.
C2_OneFlushAfterTasks ==
  BatchStarted =>
    /\ Cardinality(CallsOf("installQueuedPackages")) = 1
    /\ Cardinality(CallsOf("Q.all")) = 1
    /\ Cardinality(CallsOf("loadPlatform") \cup CallsOf("Q.reject")) = Len(tasks)
    /\ \A f \in CallsOf("installQueuedPackages") :
         /\ \A k \in CallsOf("loadPlatform") \cup CallsOf("Q.reject")
                     \cup CallsOf("queuePackageInstallation") : k < f
         /\ \A w \in CallsOf("Q.all") : f < w

\* a batch that queued two installations before its single flush
C2_Witness ==
  /\ BatchStarted
  /\ Cardinality(CallsOf("queuePackageInstallation")) = 2
  /\ Cardinality(CallsOf("installQueuedPackages")) = 1
  /\ \E i \in 1..Len(tasks) : tasks[i].state = "failed"

\* C3: the promise loadPlatforms returned is settled (fulfilled or rejected,
\* callback invoked) only when every task of the batch is resolved or failed.
C3_SettleAll ==
  batchState \in {"fulfilled", "rejected"} =>
    \A i \in 1..Len(tasks) : tasks[i].state \in {"resolved", "failed"}

\* a rejected batch one task of which failed at creation while another one,
\* which had to wait for an installation, resolved before the batch settled
C3_Witness ==
  /\ batchState = "rejected"
  /\ \E i \in 1..Len(tasks) : tasks[i].kind = "reject"
  /\ \E i \in 1..Len(tasks) :
       /\ tasks[i].state = "resolved"
       /\ CallsFor("queuePackageInstallation", tasks[i].packageName) # {}

\* a settled batch whose input holds an unregistered id next to registered
\* ids, the modules of which all resolved
MixedBatchSettled ==
  /\ batchState \in {"fulfilled", "rejected"}
  /\ RegisteredAt # {}
  /\ RegisteredAt # 1..Len(batchInput)
  /\ \A i \in 1..Len(tasks) : tasks[i].kind = "load" => tasks[i].state = "resolved"

\* C4 as stated: in a batch that holds an unregistered id next to registered
\* ids whose modules resolve, the registered ids load and complete, their
\* platform instances are constructed and handed over, and the unregistered
\* id reports NotRegistered.
C4_AsStated ==
  MixedBatchSettled =>
    /\ batchErr = "NotRegistered"
    /\ \A name \in BackingNames :
         \E i \in 1..Len(instances) : instances[i].id = name

\* C4 as amended: in such a batch the unregistered id does not stop the
\* creation of the tasks: every registered id is served by a load task that
\* runs to its resolution before the batch settles; the batch then rejects
\* with NotRegistered and constructs no platform instance.
C4_Amended ==
  MixedBatchSettled =>
    /\ \A k \in RegisteredAt :
         \E i \in 1..Len(tasks) :
           /\ tasks[i].kind = "load"
           /\ tasks[i].state = "resolved"
           /\ tasks[i].packageName = regAtLoad[batchInput[k]].packageName
           /\ \E j \in 1..Len(tasks[i].platforms) :
                tasks[i].platforms[j] = batchInput[k]
    /\ batchState = "rejected"
    /\ batchErr = "NotRegistered"
    /\ instances = <<>>
    /\ CallsOf("new Platform") = {}

\* such a batch, with an unregistered id ahead of the id of a package that
\* was installed on demand
C4_Witness ==
  /\ MixedBatchSettled
  /\ Len(tasks) = 2
  /\ tasks[1].kind = "reject"
  /\ tasks[2].state = "resolved"
  /\ CallsFor("queuePackageInstallation", tasks[2].packageName) # {}

\* the registry still is the one the batch looked its ids up in, and none of
\* its entries carried an instance before the batch
RegistryKept ==
  /\ registeredPlatforms = regAtLoad
  /\ \A id \in DOMAIN regAtLoad : regAtLoad[id].instance = Undefined

\* C5 as stated: after a batch whose tasks all succeeded, getPlatform(id)
\* returns, for every id of the batch, the instance constructed for the
\* package that backs it (so two ids of one package return one reference and
\* ids of different packages return different instances).
C5_AsStated ==
  (batchState = "fulfilled" /\ RegistryKept) =>
    \A i \in 1..Len(tasks) :
      \A j \in 1..Len(tasks[i].platforms) :
        PlatformOf(registeredPlatforms, tasks[i].platforms[j])
          = [err |-> "", value |-> <<instances[i]>>]

\* C6: when every task of a batch succeeds, the Platform constructor is
\* called exactly once per package that backs an id of the input, with the
\* package name and the list of all ids of the input that the package backs,
\* and the batch fulfils with exactly those instances, one per package.
C6_OneInstancePerModule ==
  allState = "fulfilled" =>
    /\ Cardinality(CallsOf("new Platform")) = Cardinality(BackingNames)
    /\ Len(instances) = Cardinality(BackingNames)
    /\ \A name \in BackingNames :
         /\ \E k \in CallsFor("new Platform", name) :
              calls[k].platforms = IdsBackedBy(name)
         /\ Cardinality(CallsFor("new Platform", name)) = 1
         /\ Cardinality({i \in 1..Len(instances) :
                           /\ instances[i].id = name
                           /\ instances[i].platforms = IdsBackedBy(name)}) = 1
    /\ \A i, j \in 1..Len(instances) : i # j => instances[i] # instances[j]

\* a fulfilled batch of two ids backed by one package, which was installed
\* on demand: one instance, constructed with both ids
C6_Witness ==
  /\ batchState = "fulfilled"
  /\ Len(instances) = 1
  /\ Len(instances[1].platforms) = 2
  /\ instances[1].platforms[1] # instances[1].platforms[2]
  /\ CallsFor("queuePackageInstallation", instances[1].id) # {}

\* C7: getPlatform(id) fails with NotRegistered when the registry has no
\* entry for id, fails with NotLoaded when the entry has no instance, and
\* returns the entry's instance otherwise; it never returns an undefined
\* instance.  After enablePlatforms of a configuration that carries no
\* instance, every registered id fails with NotLoaded.
C7_GetPlatform ==
  \A id \in PlatformIds :
    LET got == PlatformOf(registeredPlatforms, id)
    IN /\ id \notin DOMAIN registeredPlatforms => got.err = "NotRegistered"
       /\ id \in DOMAIN registeredPlatforms =>
            IF registeredPlatforms[id].instance = Undefined
            THEN got.err = "NotLoaded"
            ELSE got = [err |-> "", value |-> <<registeredPlatforms[id].instance>>]
       /\ got.err = "" => (Len(got.value) = 1 /\ got.value[1] # Undefined)
       /\ got.err # "" => got.value = <<>>
       /\ (/\ enabled
           /\ batchNo = 0
           /\ id \in DOMAIN lastConfig
           /\ lastConfig[id].instance = Undefined) => got.err = "NotLoaded"

\* a registry, after a fulfilled batch, with an entry that carries an
\* instance, an entry that carries none and an id that has no entry
C7_Witness ==
  /\ batchState = "fulfilled"
  /\ PlatformOf(registeredPlatforms, "a") = [err |-> "", value |-> <<PresetInstance>>]
  /\ PlatformOf(registeredPlatforms, "b").err = "NotLoaded"
  /\ PlatformOf(registeredPlatforms, "c").err = "NotRegistered"

\* the errors a read of an enabled registry can end with
EnabledReadErrors ==
  {PlatformOf(platformConfig, id).err : platformConfig \in Configs, id \in PlatformIds}

\* C8 as stated: before the first enablePlatforms call every read of the
\* registry fails with an error that no read of an enabled registry gives.
C8_AsStated ==
  ~enabled =>
    \A id \in PlatformIds :
      PlatformOf(registeredPlatforms, id).err \notin EnabledReadErrors

\* C8 as amended: before the first enablePlatforms call the registry is the
\* empty object: getPlatform(id) fails with NotRegistered for every id and
\* getAllPlatforms returns the empty array, exactly as after enablePlatforms
\* of an empty configuration.
C8_Amended ==
  ~enabled =>
    /\ \A id \in PlatformIds :
         /\ PlatformOf(registeredPlatforms, id)
              = [err |-> "NotRegistered", value |-> <<>>]
         /\ PlatformOf(registeredPlatforms, id) = PlatformOf(EmptyConfig, id)
    /\ AllPlatforms(registeredPlatforms) = <<>>
    /\ Keys(registeredPlatforms) = <<>>

\* no enablePlatforms call yet, and a batch that was started and has settled
C8_Witness ==
  /\ ~enabled
  /\ batchState = "rejected"
  /\ PlatformOf(registeredPlatforms, "a").err = "NotRegistered"

\* the entries of the registry that carry an instance
LoadedIds(reg) == {id \in DOMAIN reg : reg[id].instance # Undefined}

\* C9 as stated: getAllPlatforms returns exactly the instances of the entries
\* that have one: no element of the result is undefined and its length is the
\* number of loaded entries.
C9_AsStated ==
  LET all == AllPlatforms(registeredPlatforms)
  IN /\ \A k \in 1..Len(all) : all[k] # Undefined
     /\ Len(all) = Cardinality(LoadedIds(registeredPlatforms))

\* C10: after any sequence of enablePlatforms and loadPlatforms calls, the
\* registered ids are exactly the keys of the configuration of the latest
\* enablePlatforms call: no id of an earlier configuration survives, none is
\* merged in, none is listed twice, whatever was loaded.
C10_EnableReplaces ==
  enabled =>
    /\ DOMAIN registeredPlatforms = DOMAIN lastConfig
    /\ Keys(registeredPlatforms) = Keys(lastConfig)
    /\ \A i, j \in 1..Len(Keys(registeredPlatforms)) :
         i # j => Keys(registeredPlatforms)[i] # Keys(registeredPlatforms)[j]
    /\ \A id \in DOMAIN lastConfig : registeredPlatforms[id] = lastConfig[id]

\* a smaller configuration enabled after a batch was loaded from a larger one
C10_Witness ==
  /\ enabled
  /\ batchState = "fulfilled"
  /\ regAtLoad = ConfigShared
  /\ Len(instances) = 2
  /\ lastConfig = ConfigLoaded
  /\ DOMAIN registeredPlatforms = {"a", "b"}

\* the task of a batch, or the promise of a loadPlatform call made on its
\* own, was made from a call of the module loader with these arguments
LoaderCall(i) ==
  IF direct.called
  THEN [packageName |-> direct.packageName, source |-> direct.source]
  ELSE [packageName |-> tasks[i].packageName,
        source |-> regAtLoad[tasks[i].subject].source]
LoaderTasks == {i \in 1..Len(tasks) : tasks[i].kind = "load"}

\* C11: the module loader called with an empty or missing package name or
\* source returns a rejected promise (the task fails with the argument
\* error) without a require and without a queuePackageInstallation call.
C11_InvalidArgument ==
  \A i \in LoaderTasks :
    (LoaderCall(i).packageName = "" \/ LoaderCall(i).source = "") =>
      /\ tasks[i].inner = "error"
      /\ tasks[i].state # "resolved"
      /\ tasks[i].err = IF LoaderCall(i).packageName = ""
                        THEN "InvalidName" ELSE "InvalidSource"
      /\ CallsFor("require", tasks[i].packageName) = {}
      /\ CallsFor("queuePackageInstallation", tasks[i].packageName) = {}

\* a batch task that failed for its empty source, of a package that require
\* would not have found
C11_Witness ==
  /\ BatchStarted
  /\ \E i \in LoaderTasks :
       /\ LoaderCall(i).source = ""
       /\ tasks[i].state = "failed"
       /\ modules[tasks[i].packageName] = "missing"

\* a call made on its own without a package name
C11_WitnessName ==
  /\ direct.called
  /\ direct.packageName = ""
  /\ tasks[1].state = "failed"

\* the loader calls whose arguments were both given
ValidLoaderTasks ==
  {i \in LoaderTasks :
     LoaderCall(i).packageName # "" /\ LoaderCall(i).source # ""}

\* C12: when the first require of a package throws another error than
\* MODULE_NOT_FOUND, the module loader fails with the ResolutionError that
\* wraps it and never calls queuePackageInstallation for the package;
\* queuePackageInstallation is called only after a MODULE_NOT_FOUND.
C12_NoMasking ==
  \A i \in ValidLoaderTasks :
    LET name == tasks[i].packageName
    IN /\ modsAtLoad[name] = "broken" =>
            /\ tasks[i].inner = "error"
            /\ tasks[i].err = "ResolutionError"
            /\ tasks[i].state # "resolved"
            /\ CallsFor("queuePackageInstallation", name) = {}
            /\ Cardinality(CallsFor("require", name)) = 1
       /\ CallsFor("queuePackageInstallation", name) # {} =>
            modsAtLoad[name] = "missing"

\* a batch in which one package failed to resolve for another reason than
\* its absence, next to a package that was queued for installation
C12_Witness ==
  /\ BatchStarted
  /\ \E i, j \in ValidLoaderTasks :
       /\ tasks[i].state = "failed"
       /\ tasks[i].err = "ResolutionError"
       /\ CallsFor("queuePackageInstallation", tasks[j].packageName) # {}

\* a step that starts a new operation and so replaces the tasks array: a
\* loadPlatforms or a loadPlatform step, whose arguments are those the step
\* records
StartsOperation ==
  \/ \E platforms \in {batchInput'} : LoadPlatforms(platforms)
  \/ \E packageName \in {direct'.packageName}, source \in {direct'.source} :
       LoadPlatformDirect(packageName, source)

\* what holds in every state of a task whose package was missing at the
\* first require
MissingOnce(i) ==
  LET name == tasks[i].packageName
      requires == Cardinality(CallsFor("require", name))
  IN /\ Cardinality(CallsFor("queuePackageInstallation", name)) = 1
     /\ requires \in {1, 2}
     /\ tasks[i].inner = "queued" => (requires = 1 /\ tasks[i].state = "pending")
     /\ tasks[i].inner = "installed" => (requires = 1 /\ tasks[i].state = "pending")
     /\ tasks[i].err = "InstallError" => (requires = 1 /\ tasks[i].state # "resolved")
     /\ requires = 2 =>
          /\ tasks[i].err \in {"", "MODULE_NOT_FOUND", "RequireError"}
          /\ tasks[i].state = IF tasks[i].err = "" THEN "resolved" ELSE "failed"
     /\ tasks[i].state = "resolved" => requires = 2

\* C13: for a package that is missing at the first require, the module loader
\* calls queuePackageInstallation exactly once, requires the package a second
\* time only after the promise of that call resolved, and never a third
\* time: when the promise rejects or the second require throws, the task fails
\* without a retry.  A task that is resolved or failed stays as it is, until
\* the next operation replaces the tasks.
C13_QueueOnceNoRetry ==
  /\ [](\A i \in ValidLoaderTasks : modsAtLoad[tasks[i].packageName] = "missing"
                                      => MissingOnce(i))
  /\ [][\/ /\ Len(tasks') = Len(tasks)
          /\ \A i \in 1..Len(tasks) :
               Settled(tasks[i]) => tasks'[i].state = tasks[i].state
       \/ StartsOperation]_vars

\* a batch task that failed at its second require, after its installation
\* was reported done, next to a task the installation of which was rejected
C13_Witness ==
  /\ BatchStarted
  /\ \E i, j \in ValidLoaderTasks :
       /\ tasks[i].state = "failed"
       /\ tasks[i].err = "MODULE_NOT_FOUND"
       /\ Cardinality(CallsFor("require", tasks[i].packageName)) = 2
       /\ tasks[j].state = "failed"
       /\ tasks[j].err = "InstallError"

\* the platform ids a task serves, as a set
IdsOf(i) == {tasks[i].platforms[k] : k \in 1..Len(tasks[i].platforms)}

\* C14 as stated: in a batch, whatever the input (a repeated id included),
\* the load tasks have non-empty, pairwise disjoint collections of platform
\* ids in which no id appears twice, and every package name that backs a
\* registered id of the input belongs to exactly one load task.
C14_AsStated ==
  BatchStarted =>
    /\ \A i \in LoaderTasks :
         /\ tasks[i].platforms # <<>>
         /\ Cardinality(IdsOf(i)) = Len(tasks[i].platforms)
    /\ \A i, j \in LoaderTasks : i # j => IdsOf(i) \cap IdsOf(j) = {}
    /\ \A name \in BackingNames :
         Cardinality({i \in LoaderTasks : tasks[i].packageName = name}) = 1

\* C15: a batch that was started settles: when the continuations run and the
\* acquirer settles every promise of queuePackageInstallation, loadPlatforms
\* fulfils or rejects in the end, with every task resolved or failed; nothing
\* cancels a task or times it out.
C15_BatchSettles ==
  (batchState = "pending") ~>
    (/\ batchState \in {"fulfilled", "rejected"}
     /\ \A i \in 1..Len(tasks) : Settled(tasks[i]))

\* a batch that has settled after it had waited for two installations
C15_Witness ==
  /\ batchState \in {"fulfilled", "rejected"}
  /\ Cardinality(CallsOf("queuePackageInstallation")) = 2
  /\ Cardinality(CallsOf("require")) = 4

\* the input positions at which a task is due: every unregistered id, and
\* the first id of each package
TaskPositions ==
  {k \in 1..Len(batchInput) :
     \/ ~IsRegistered(regAtLoad, batchInput[k])
     \/ \A j \in 1..(k - 1) :
          \/ ~IsRegistered(regAtLoad, batchInput[j])
          \/ regAtLoad[batchInput[j]].packageName
               # regAtLoad[batchInput[k]].packageName}
\* the calls that create a task, in the order they were made
Creations ==
  SelectSeq(calls, LAMBDA c : c.op \in {"loadPlatform", "Q.reject"})

\* C16: the tasks of a batch are created in input order: the loadPlatform
\* calls and the rejected tasks of unregistered ids follow the order in
\* which the first id of each package, and each unregistered id, stands in
\* the input.  (The order of completion is free: see the witness.)
C16_CreationOrder ==
  BatchStarted =>
    /\ Len(tasks) = Cardinality(TaskPositions)
    /\ Len(Creations) = Cardinality(TaskPositions)
    /\ \A k \in TaskPositions :
         LET i == Cardinality({j \in TaskPositions : j <= k})
             id == batchInput[k]
         IN IF IsRegistered(regAtLoad, id)
            THEN /\ tasks[i].kind = "load"
                 /\ tasks[i].packageName = regAtLoad[id].packageName
                 /\ tasks[i].platforms[1] = id
                 /\ Creations[i].op = "loadPlatform"
                 /\ Creations[i].name = regAtLoad[id].packageName
            ELSE /\ tasks[i].kind = "reject"
                 /\ tasks[i].subject = id
                 /\ Creations[i].op = "Q.reject"
                 /\ Creations[i].name = id

\* two load tasks of different packages, the second of which has resolved
\* while the first one still waits for its installation
C16_Witness ==
  /\ BatchStarted
  /\ Len(tasks) = 2
  /\ tasks[1].kind = "load" /\ tasks[2].kind = "load"
  /\ tasks[1].state = "pending"
  /\ tasks[2].state = "resolved"
  /\ tasks[1].platforms[1] = batchInput[1]

FailedTasks == {i \in 1..Len(tasks) : tasks[i].state = "failed"}

\* C17: once a task of a batch has failed, no platform constructor is ever
\* invoked and the caller receives no instance; the batch is never fulfilled,
\* it rejects, and the error it rejects with is the error of a failed task.
C17_FailureRejects ==
  /\ [](BatchStarted /\ FailedTasks # {} =>
          /\ CallsOf("new Platform") = {}
          /\ instances = <<>>
          /\ allState # "fulfilled"
          /\ batchState # "fulfilled"
          /\ batchState = "rejected" =>
               \E i \in FailedTasks : batchErr = tasks[i].err)
  /\ (BatchStarted /\ FailedTasks # {}) ~> (batchState = "rejected")

\* a rejected batch of two load tasks: the first resolved its module, the
\* second failed, and its error is the one reported
C17_Witness ==
  /\ batchState = "rejected"
  /\ Len(tasks) = 2
  /\ tasks[1].kind = "load" /\ tasks[1].state = "resolved"
  /\ tasks[2].kind = "load" /\ tasks[2].state = "failed"
  /\ batchErr = tasks[2].err
  /\ instances = <<>>

\* what C18 speaks of: the registered ids and, for each, its package name
\* and its source
Registration(reg) ==
  [id \in DOMAIN reg |->
     [packageName |-> reg[id].packageName, source |-> reg[id].source]]
EnableStep ==
  \/ \E platformConfig \in Configs : EnablePlatforms(platformConfig)
  \/ \E readable \in BOOLEAN : EnablePlatformsDefault(readable)

\* C18: no step of loadPlatforms (its continuations included), getPlatform
\* or getAllPlatforms changes the registered ids or the package name and
\* source of an entry; a step that changes them is a step of enablePlatforms.
C18_RegistryFrame ==
  [][Registration(registeredPlatforms') # Registration(registeredPlatforms) =>
       /\ EnableStep
       /\ UNCHANGED batchVars]_vars

\* a settled batch whose input held an id the enabled registry lacked, and
\* the registry still is as enablePlatforms set it
C18_Witness ==
  /\ enabled
  /\ batchState \in {"fulfilled", "rejected"}
  /\ \E k \in 1..Len(batchInput) : batchInput[k] \notin DOMAIN regAtLoad
  /\ Registration(registeredPlatforms) = Registration(lastConfig)
  /\ Registration(registeredPlatforms) = Registration(regAtLoad)

\* the calls of the current batch that name a package
PackageCalls ==
  CallsOf("loadPlatform") \cup CallsOf("require")
    \cup CallsOf("queuePackageInstallation") \cup CallsOf("new Platform")

\* C19: the registry is looked up only in the synchronous part of
\* loadPlatforms.  An enablePlatforms step taken while the batch is pending
\* changes neither its tasks nor its calls nor its instances, and whatever
\* the registry has become, the tasks, the packages resolved and the id
\* lists given to the constructors are those of the registry as it was when
\* loadPlatforms was called.
C19_LookupsUpFront ==
  /\ [][EnableStep /\ batchState = "pending" =>
          /\ tasks' = tasks
          /\ calls' = calls
          /\ instances' = instances
          /\ allState' = allState]_vars
  /\ [](BatchStarted =>
          /\ Len(tasks) = Cardinality(TaskPositions)
          /\ \A i \in LoaderTasks :
               /\ tasks[i].packageName \in BackingNames
               /\ tasks[i].platforms = IdsBackedBy(tasks[i].packageName)
          /\ \A k \in PackageCalls : calls[k].name \in BackingNames
          /\ \A k \in CallsOf("new Platform") :
               calls[k].platforms = IdsBackedBy(calls[k].name)
          /\ \A i \in 1..Len(instances) :
               /\ instances[i].id \in BackingNames
               /\ instances[i].platforms = IdsBackedBy(instances[i].id))

\* a fulfilled batch whose installation was awaited, and the registry it
\* ends with no longer registers an id its instance was constructed with
C19_Witness ==
  /\ batchState = "fulfilled"
  /\ Len(instances) >= 1
  /\ CallsFor("queuePackageInstallation", instances[1].id) # {}
  /\ \E k \in 1..Len(instances[1].platforms) :
       ~IsRegistered(registeredPlatforms, instances[1].platforms[k])

\* the same while the tasks are pending: enablePlatforms has dropped an id
\* of a task that still waits for its installation
C19_WitnessPending ==
  /\ batchState = "pending"
  /\ \E i \in LoaderTasks :
       /\ tasks[i].state = "pending"
       /\ \E k \in 1..Len(tasks[i].platforms) :
            ~IsRegistered(registeredPlatforms, tasks[i].platforms[k])

====
